---- MODULE Spec2Model ----
(***************************************************************************)
(* Model of firdl-bot.py: the request resolution and caching pipeline of   *)
(* the FIR downloader bot (parse -> validate -> cache lookup -> fetch ->   *)
(* deliver -> archive -> cache store) and its single and bulk handlers.    *)
(*                                                                         *)
(* Strings are sequences of one-character strings, so that the regular     *)
(* expression, str.lower, str.strip, int() and the f-string that builds    *)
(* the cache key are computed character by character.                      *)
(***************************************************************************)
EXTENDS Integers, Sequences, FiniteSets, TLC

VARIABLES
    pc,          \* position of the running handler ("idle" when none runs)
    chat_id,     \* update.message.chat_id of the running handler
    lines,       \* handle_message: the stripped non-empty lines
    idx,         \* handle_bulk_request: index of the line in the for loop, 0 on the single path
    text,        \* process_fir_request: its text argument
    frame,       \* process_fir_request: its local variables
    response,    \* fetch_fir_from_api: what the upstream answered in the last call
    cache,       \* the MongoDB collection fir_logs: _id -> message_id
    channel,     \* the log channel: message_id -> fir_key of the caption
    trace,       \* the awaited calls of the current process_fir_request, in order
    cache0,      \* the collection as it was when the current process_fir_request began
    result,      \* how the current process_fir_request stands: none, running, returned, raised
    hlog,        \* the awaited calls the current handler made itself, in order
    handler,     \* how the last handler ended: none, running, finished, error
    outcomes     \* what each process_fir_request of the current handler ended with, in order

vars == <<pc, chat_id, lines, idx, text, frame, response, cache, channel,
          trace, cache0, result, hlog, handler, outcomes>>

\* Python's None and a present value, as sequences of length 0 and 1
None == <<>>
Some(v) == <<v>>

\* ------------------------------------------------------------------ strings

Digits == {"0", "1", "2", "3", "4", "5", "6", "7", "8", "9"}

LowerLetters == {"a", "b", "c", "d", "e", "f", "g", "h", "i", "j", "k", "l", "m",
                 "n", "o", "p", "q", "r", "s", "t", "u", "v", "w", "x", "y", "z"}

UpperSeq == <<"A", "B", "C", "D", "E", "F", "G", "H", "I", "J", "K", "L", "M",
              "N", "O", "P", "Q", "R", "S", "T", "U", "V", "W", "X", "Y", "Z">>

LowerSeq == <<"a", "b", "c", "d", "e", "f", "g", "h", "i", "j", "k", "l", "m",
              "n", "o", "p", "q", "r", "s", "t", "u", "v", "w", "x", "y", "z">>

Whitespace == {" ", "\t"}

\* str.lower on one character
LowerChar(c) ==
    IF \E i \in 1..Len(UpperSeq) : UpperSeq[i] = c
    THEN LowerSeq[CHOOSE i \in 1..Len(UpperSeq) : UpperSeq[i] = c]
    ELSE c

\* str.lower
Lower(s) == [i \in 1..Len(s) |-> LowerChar(s[i])]

\* str.strip: drops the leading and the trailing whitespace
Strip(s) ==
    LET keep == {i \in 1..Len(s) : s[i] \notin Whitespace}
    IN  IF keep = {} THEN <<>>
        ELSE LET lo == CHOOSE i \in keep : \A j \in keep : i <= j
                 hi == CHOOSE i \in keep : \A j \in keep : j <= i
             IN  SubSeq(s, lo, hi)

AllIn(s, lo, hi, class) == \A i \in lo..hi : s[i] \in class

DigitValue(c) == CHOOSE v \in 0..9 : <<"0", "1", "2", "3", "4", "5", "6", "7", "8", "9">>[v + 1] = c

\* int() of a string of decimal digits
RECURSIVE IntOf(_)
IntOf(s) == IF s = <<>> THEN 0
          ELSE 10 * IntOf(SubSeq(s, 1, Len(s) - 1)) + DigitValue(s[Len(s)])

\* The splits of s the pattern ^([a-z0-9]+)\s*(\d+)/(\d{4})$ allows: the code
\* group ends at i, the white space at j, the number at Len(s) - 5.
Splits(s) ==
    LET n == Len(s)
    IN  IF n < 7 \/ s[n - 4] # "/" \/ ~AllIn(s, n - 3, n, Digits) THEN {}
        ELSE {ij \in (1..(n - 6)) \X (1..(n - 6)) :
                 /\ ij[1] <= ij[2]
                 /\ AllIn(s, 1, ij[1], LowerLetters \cup Digits)
                 /\ AllIn(s, ij[1] + 1, ij[2], Whitespace)
                 /\ AllIn(s, ij[2] + 1, n - 5, Digits)}

\* re.match of the pattern on s, and match.groups(): the first group is greedy,
\* so the engine returns the split with the longest code group.
ReMatch(s) ==
    IF Splits(s) = {} THEN None
    ELSE Some(LET ij == CHOOSE a \in Splits(s) : \A b \in Splits(s) : b[1] <= a[1]
             n  == Len(s)
         IN  [ps_short_code |-> SubSeq(s, 1, ij[1]),
              fir_number    |-> SubSeq(s, ij[2] + 1, n - 5),
              fir_year      |-> SubSeq(s, n - 3, n)])

\* ------------------------------------------------------------ station table

PS(district, ps, name) == [districtCode |-> district, psCode |-> ps, psName |-> name]

psMap ==
    (<<"a", "k">> :> PS("25810", "25810014", "Amir Khas")) @@
    (<<"a", "w">> :> PS("25810", "25810005", "Arniwala")) @@
    (<<"b", "w">> :> PS("25810", "25810010", "Bahawala")) @@
    (<<"c", "1", "a">> :> PS("25810", "25810006", "City 1 Abohar")) @@
    (<<"c", "2", "a">> :> PS("25810", "25810007", "City 2 Abohar")) @@
    (<<"c", "f">> :> PS("25810", "25810003", "City Fazilka")) @@
    (<<"c", "j">> :> PS("25810", "25810001", "City Jalalabad")) @@
    (<<"c", "c", "f">> :> PS("25810", "25810015", "Cyber Crime Fazilka")) @@
    (<<"k", "k">> :> PS("25810", "25525037", "Khui Khera")) @@
    (<<"k", "s">> :> PS("25810", "25810009", "Khuian Sarwar")) @@
    (<<"s", "a">> :> PS("25810", "25810008", "Sadar Abohar")) @@
    (<<"s", "f">> :> PS("25810", "25810004", "Sadar Fazilka")) @@
    (<<"s", "j">> :> PS("25810", "25810002", "Sadar Jalalabad")) @@
    (<<"v", "k">> :> PS("25810", "25810002", "Vairoke")) @@
    (<<"s", "s", "o", "c", "f">> :> PS("25524", "25810011", "SSOC Fazilka")) @@
    (<<"s", "s", "o", "c", "a">> :> PS("25524", "25524002", "SSOC Amritsar")) @@
    (<<"s", "s", "o", "c", "m">> :> PS("25524", "25524002", "SSOC SAS Nagar"))

\* psMap.get(ps_short_code)
PsGet(ps_short_code) ==
    IF ps_short_code \in DOMAIN psMap THEN Some(psMap[ps_short_code]) ELSE None

MinFirNumber == 1
MaxFirNumber == 999
MinFirYear == 2010
MaxFirYear == 2026

\* Validated with the upper limit of the number forgotten
Validated_NoUpperBound(m) ==
    /\ PsGet(m.ps_short_code) # None
    /\ MinFirNumber <= IntOf(m.fir_number)
    /\ MinFirYear <= IntOf(m.fir_year) /\ IntOf(m.fir_year) <= MaxFirYear

\* the condition of the validation "if", negated: the request is accepted
Validated(m) ==
    /\ PsGet(m.ps_short_code) # None
    /\ MinFirNumber <= IntOf(m.fir_number) /\ IntOf(m.fir_number) <= MaxFirNumber
    /\ MinFirYear <= IntOf(m.fir_year) /\ IntOf(m.fir_year) <= MaxFirYear

\* f"FIR_{ps_short_code}_{fir_number}_{fir_year}"
FirKey(m) ==
    <<"F", "I", "R", "_">> \o m.ps_short_code \o <<"_">> \o m.fir_number
        \o <<"_">> \o m.fir_year

\* what process_fir_request makes of its text before it touches the cache
Classify(t) ==
    LET m == ReMatch(Strip(Lower(t)))
    IN  IF m = None THEN "InvalidFormat"
        ELSE IF ~Validated(m[1]) THEN "InvalidInput"
        ELSE "Accepted"

\* ------------------------------------------------------- the collection

\* get_cached_message_id when find_one answers
get_cached_message_id(collection, fir_key) ==
    IF fir_key \in DOMAIN collection THEN Some(collection[fir_key]) ELSE None

\* cache_message_id that replaces the whole collection by the one document
cache_message_id_Overwrites(collection, fir_key, message_id) ==
    [k \in {fir_key} |-> message_id]

\* cache_message_id as an insert that leaves an existing document alone
cache_message_id_InsertOnly(collection, fir_key, message_id) ==
    [k \in DOMAIN collection \cup {fir_key} |->
        IF k \in DOMAIN collection THEN collection[k] ELSE message_id]

\* cache_message_id when replace_one answers: replace or insert (upsert=True)
cache_message_id(collection, fir_key, message_id) ==
    [k \in DOMAIN collection \cup {fir_key} |->
        IF k = fir_key THEN message_id ELSE collection[k]]

\* truth value of an optional integer: None and 0 are false
Truthy(o) == o # None /\ o[1] # 0

\* ------------------------------------------------------------ the upstream

PdfThreshold == 1000
NotFoundStatus == 404
FallbackStatus == 500

ContentTypes == {"application/pdf", "application/pdf;charset=UTF-8", "text/html"}

\* 'application/pdf' in response.headers.get('Content-Type', '')
ContainsPdf(content_type) ==
    content_type \in {"application/pdf", "application/pdf;charset=UTF-8"}

\* What requests.post can end with: a response (status, content type, body
\* length), or an exception that carries no response (timeout, transport error).
Responses ==
    [kind : {"response"}, status_code : {200, 403, 404, 502},
     content_type : ContentTypes, length : {50, 1000, 1001}]
    \cup {[kind |-> "no_response", status_code |-> 0, content_type |-> "", length |-> 0]}

NoResponse == [kind |-> "none", status_code |-> 0, content_type |-> "", length |-> 0]

\* response.raise_for_status() raises HTTPError, which carries the response
RaisesForStatus(r) == 400 <= r.status_code /\ r.status_code < 600

\* bool(response): requests.Response.__bool__ is response.ok
ResponseTruthy(r) == r.kind = "response" /\ ~RaisesForStatus(r)

\* fetch_fir_from_api with ">=" for ">" in the test of the body length
fetch_fir_from_api_AtLeast(r) ==
    IF r.kind = "no_response" \/ RaisesForStatus(r)
    THEN [pdf_content |-> None,
          status_code |-> IF ResponseTruthy(r) THEN r.status_code ELSE FallbackStatus]
    ELSE IF ContainsPdf(r.content_type) /\ r.length >= PdfThreshold
    THEN [pdf_content |-> Some(r.length), status_code |-> r.status_code]
    ELSE [pdf_content |-> None, status_code |-> NotFoundStatus]

\* fetch_fir_from_api: the pair (pdf_content, status_code) it returns. The body
\* is modelled by its length.
fetch_fir_from_api(r) ==
    IF r.kind = "no_response" \/ RaisesForStatus(r)
    THEN [pdf_content |-> None,
          status_code |-> IF ResponseTruthy(r) THEN r.status_code ELSE FallbackStatus]
    ELSE IF ContainsPdf(r.content_type) /\ r.length > PdfThreshold
    THEN [pdf_content |-> Some(r.length), status_code |-> r.status_code]
    ELSE [pdf_content |-> None, status_code |-> NotFoundStatus]

\* generate_api_error_message, without the IP line
generate_api_error_message(status) ==
    IF status = 404 THEN <<"Not Found">>
    ELSE IF status = 403 THEN <<"Forbidden">>
    ELSE <<"Server Error", status>>

\* --------------------------------------------------------------- the inputs

MaxLines == 2      \* lines of one inbound message
MaxChannel == 2    \* documents the log channel takes before its uploads only fail

Chats == {1, 2}
LOG_CHANNEL_ID == 9

L_cf123 == <<"c", "f", " ", "1", "2", "3", "/", "2", "0", "2", "5">>
L_CF0123 == <<" ", "C", "F", " ", "0", "1", "2", "3", "/", "2", "0", "2", "5">>
L_zz1 == <<"z", "z", " ", "1", "/", "2", "0", "2", "0">>
L_bad == <<"c", "f", " ", "1", "-", "2", "0", "2", "0">>
L_blank == <<" ">>

\* the lines an inbound message is made of
RawLines == {L_cf123, L_CF0123, L_zz1, L_bad, L_blank}

\* update.message.text, split at its newlines
RawTexts == UNION {[1..n -> RawLines] : n \in 1..MaxLines}

\* what a awaited call can end with
Outcomes == {"ok", "raise"}

Call(op, to, arg, out) == [op |-> op, to |-> to, arg |-> arg, out |-> out]

NoFrame == [ps_short_code |-> <<>>, fir_number |-> <<>>, fir_year |-> <<>>,
            fir_key |-> <<>>, cached_id |-> None, pdf_content |-> None,
            status_code |-> None, log_message |-> None]

Init ==
    /\ pc = "idle"
    /\ chat_id = 0
    /\ lines = <<>>
    /\ idx = 0
    /\ text = <<>>
    /\ frame = NoFrame
    /\ response = NoResponse
    /\ cache = <<>>
    /\ channel = <<>>
    /\ trace = <<>>
    /\ cache0 = cache
    /\ result = "none"
    /\ hlog = <<>>
    /\ handler = "none"
    /\ outcomes = <<>>

\* ------------------------------------------------------------- the handlers

\* the call process_fir_request(chat_id, line, context) begins
Enter(line) ==
    /\ pc' = "proc"
    /\ text' = line
    /\ frame' = NoFrame
    /\ response' = NoResponse
    /\ trace' = <<>>
    /\ cache0' = cache
    /\ result' = "running"

\* an exception leaves the handler; the Application logs it
HandlerRaises ==
    /\ pc' = "ended"
    /\ handler' = "error"

HandlerReturns ==
    /\ pc' = "ended"
    /\ handler' = "finished"

\* run_polling: the Application is done with the update and waits for the next
UpdateDone ==
    /\ pc = "ended"
    /\ pc' = "idle"
    /\ chat_id' = 0
    /\ lines' = <<>>
    /\ idx' = 0
    /\ text' = <<>>
    /\ frame' = NoFrame
    /\ response' = NoResponse
    /\ trace' = <<>>
    /\ cache0' = cache
    /\ result' = "none"
    /\ hlog' = <<>>
    /\ handler' = "none"
    /\ outcomes' = <<>>
    /\ UNCHANGED <<cache, channel>>

\* handle_message: splits the text and calls the single or the bulk handler
HandleMessage ==
    /\ pc = "idle"
    /\ \E c \in Chats, raw \in RawTexts :
         LET kept == SelectSeq(raw, LAMBDA l : Strip(l) # <<>>)
             ls   == [i \in 1..Len(kept) |-> Strip(kept[i])]
         IN  /\ chat_id' = c
             /\ lines' = ls
             /\ IF ls = <<>> THEN HandlerReturns
                ELSE /\ handler' = "running"
                     /\ pc' = IF Len(ls) > 1 THEN "bulk_start" ELSE "single_reply"
    /\ UNCHANGED <<idx, text, frame, response, cache, channel, trace, cache0,
                   result, hlog, outcomes>>

\* handle_single_request: the status message, then process_fir_request
SingleReply ==
    /\ pc = "single_reply"
    /\ \E o \in Outcomes :
         /\ hlog' = Append(hlog, Call("reply_text", chat_id, <<"Processing">>, o))
         /\ IF o = "ok"
            THEN Enter(lines[1]) /\ UNCHANGED handler
            ELSE HandlerRaises /\ UNCHANGED <<text, frame, response, trace, cache0, result>>
    /\ UNCHANGED <<chat_id, lines, idx, cache, channel, outcomes>>

\* handle_single_request: deletes the status message
SingleDelete ==
    /\ pc = "single_delete"
    /\ \E o \in Outcomes :
         /\ hlog' = Append(hlog, Call("delete_message", chat_id, <<"Processing">>, o))
         /\ IF o = "ok" THEN HandlerReturns ELSE HandlerRaises
    /\ UNCHANGED <<chat_id, lines, idx, text, frame, response, cache, channel,
                   trace, cache0, result, outcomes>>

\* handle_bulk_request: the starting message, then the first line
BulkStart ==
    /\ pc = "bulk_start"
    /\ \E o \in Outcomes :
         /\ hlog' = Append(hlog, Call("send_message", chat_id, <<"Starting", Len(lines)>>, o))
         /\ IF o = "ok"
            THEN Enter(lines[1]) /\ idx' = 1 /\ UNCHANGED handler
            ELSE HandlerRaises /\ UNCHANGED <<idx, text, frame, response, trace, cache0, result>>
    /\ UNCHANGED <<chat_id, lines, cache, channel, outcomes>>

\* handle_bulk_request: asyncio.sleep(BULK_DELAY), then the next line or the end of the loop
BulkSleep ==
    /\ pc = "bulk_sleep"
    /\ hlog' = Append(hlog, Call("sleep", chat_id, <<"BULK_DELAY">>, "ok"))
    /\ IF idx < Len(lines)
       THEN Enter(lines[idx + 1]) /\ idx' = idx + 1
       ELSE /\ pc' = "bulk_edit"
            /\ UNCHANGED <<idx, text, frame, response, trace, cache0, result>>
    /\ UNCHANGED <<chat_id, lines, cache, channel, handler, outcomes>>

\* handle_bulk_request: edits the status message into the completion message
BulkEdit ==
    /\ pc = "bulk_edit"
    /\ \E o \in Outcomes :
         /\ hlog' = Append(hlog, Call("edit_message_text", chat_id, <<"Complete", Len(lines)>>, o))
         /\ IF o = "ok" THEN HandlerReturns ELSE HandlerRaises
    /\ UNCHANGED <<chat_id, lines, idx, text, frame, response, cache, channel,
                   trace, cache0, result, outcomes>>

\* ---------------------------------------------------- process_fir_request

Outcome(kind, fr) ==
    [text |-> text, kind |-> kind, ps_short_code |-> fr.ps_short_code,
     fir_number |-> fr.fir_number, fir_year |-> fr.fir_year, fir_key |-> fr.fir_key]

\* process_fir_request returns to handle_single_request or to the bulk loop
Return(kind, fr) ==
    /\ result' = "returned"
    /\ outcomes' = Append(outcomes, Outcome(kind, fr))
    /\ pc' = IF idx = 0 THEN "single_delete" ELSE "bulk_sleep"
    /\ UNCHANGED handler

\* an awaited call raises: nothing catches it up to the Application
Raise(fr) ==
    /\ result' = "raised"
    /\ outcomes' = Append(outcomes, Outcome("Raised", fr))
    /\ HandlerRaises

\* match.groups(), the station and the key, as process_fir_request assigns them
Parsed(m) ==
    [NoFrame EXCEPT !.ps_short_code = m.ps_short_code,
                    !.fir_number = m.fir_number,
                    !.fir_year = m.fir_year]

\* "if not match": the Invalid Format message, and return
ProcInvalidFormat ==
    /\ pc = "proc"
    /\ Classify(text) = "InvalidFormat"
    /\ \E o \in Outcomes :
         /\ trace' = Append(trace, Call("send_message", chat_id, <<"Invalid Format", text>>, o))
         /\ IF o = "ok" THEN Return("InvalidFormat", frame) ELSE Raise(frame)
    /\ UNCHANGED <<chat_id, lines, idx, text, frame, response, cache, channel, cache0, hlog>>

\* ProcInvalidInput with the lookup done before the function returns
ProcInvalidInput_TouchesCache ==
    /\ pc = "proc"
    /\ Classify(text) = "InvalidInput"
    /\ LET m  == ReMatch(Strip(Lower(text)))[1]
           fr == [Parsed(m) EXCEPT !.fir_key = FirKey(m)]
       IN  /\ frame' = fr
           /\ trace' = trace \o
                  <<Call("send_message", chat_id, <<"Invalid Input", text>>, "ok"),
                    Call("find_one", 0, <<fr.fir_key>>,
                         IF fr.fir_key \in DOMAIN cache THEN "hit" ELSE "miss")>>
           /\ Return("InvalidInput", fr)
    /\ UNCHANGED <<chat_id, lines, idx, text, response, cache, channel, cache0, hlog>>

\* the validation "if": the Invalid Input message, and return
ProcInvalidInput ==
    /\ pc = "proc"
    /\ Classify(text) = "InvalidInput"
    /\ LET fr == Parsed(ReMatch(Strip(Lower(text)))[1])
       IN  /\ frame' = fr
           /\ \E o \in Outcomes :
                /\ trace' = Append(trace, Call("send_message", chat_id, <<"Invalid Input", text>>, o))
                /\ IF o = "ok" THEN Return("InvalidInput", fr) ELSE Raise(fr)
    /\ UNCHANGED <<chat_id, lines, idx, text, response, cache, channel, cache0, hlog>>

\* AfterLookup with the cached id ignored
AfterLookup_AlwaysFetch(cached_id) == "fetch"

\* "if cached_id": where process_fir_request goes after the lookup
AfterLookup(cached_id) == IF Truthy(cached_id) THEN "hit" ELSE "fetch"

\* ProcCacheLookup with a failed find_one caught and taken for a miss
ProcCacheLookup_SwallowsError ==
    /\ pc = "proc"
    /\ Classify(text) = "Accepted"
    /\ LET m  == ReMatch(Strip(Lower(text)))[1]
           fr == [Parsed(m) EXCEPT !.fir_key = FirKey(m)]
       IN  \E o \in Outcomes :
             LET cached_id == IF o = "ok" THEN get_cached_message_id(cache, fr.fir_key)
                              ELSE None
             IN  /\ frame' = [fr EXCEPT !.cached_id = cached_id]
                 /\ trace' = Append(trace, Call("find_one", 0, <<fr.fir_key>>,
                                    IF o # "ok" THEN "raise"
                                    ELSE IF cached_id = None THEN "miss" ELSE "hit"))
                 /\ pc' = AfterLookup(cached_id)
    /\ UNCHANGED <<chat_id, lines, idx, text, response, cache, channel, cache0, hlog,
                   result, outcomes, handler>>

\* fir_key and the lookup get_cached_message_id(db_collection, fir_key)
ProcCacheLookup ==
    /\ pc = "proc"
    /\ Classify(text) = "Accepted"
    /\ LET m  == ReMatch(Strip(Lower(text)))[1]
           fr == [Parsed(m) EXCEPT !.fir_key = FirKey(m)]
       IN  \E o \in Outcomes :
             IF o = "ok"
             THEN LET cached_id == get_cached_message_id(cache, fr.fir_key)
                  IN  /\ frame' = [fr EXCEPT !.cached_id = cached_id]
                      /\ trace' = Append(trace, Call("find_one", 0, <<fr.fir_key>>,
                                         IF cached_id = None THEN "miss" ELSE "hit"))
                      /\ pc' = AfterLookup(cached_id)
                      /\ UNCHANGED <<result, outcomes, handler>>
             ELSE /\ frame' = fr
                  /\ trace' = Append(trace, Call("find_one", 0, <<fr.fir_key>>, "raise"))
                  /\ Raise(fr)
    /\ UNCHANGED <<chat_id, lines, idx, text, response, cache, channel, cache0, hlog>>

\* ProcCacheHit without its return: the function goes on to the fetch
ProcCacheHit_FallsThrough ==
    /\ pc = "hit"
    /\ \E o \in Outcomes :
         /\ trace' = Append(trace, Call("copy_message", chat_id,
                                        <<LOG_CHANNEL_ID, frame.cached_id[1]>>, o))
         /\ IF o = "ok"
            THEN pc' = "fetch" /\ UNCHANGED <<result, outcomes, handler>>
            ELSE Raise(frame)
    /\ UNCHANGED <<chat_id, lines, idx, text, frame, response, cache, channel, cache0, hlog>>

\* cache hit: copy_message from the log channel, and return
ProcCacheHit ==
    /\ pc = "hit"
    /\ \E o \in Outcomes :
         /\ trace' = Append(trace, Call("copy_message", chat_id,
                                        <<LOG_CHANNEL_ID, frame.cached_id[1]>>, o))
         /\ IF o = "ok" THEN Return("CacheHit", frame) ELSE Raise(frame)
    /\ UNCHANGED <<chat_id, lines, idx, text, frame, response, cache, channel, cache0, hlog>>

\* AfterFetch with a failed fetch tried again
AfterFetch_Retries(pdf_content) == IF Truthy(pdf_content) THEN "deliver" ELSE "fetch"

\* AfterFetch with the test of pdf_content forgotten
AfterFetch_AlwaysDeliver(pdf_content) == "deliver"

\* "if pdf_content": where process_fir_request goes after the fetch
AfterFetch(pdf_content) == IF Truthy(pdf_content) THEN "deliver" ELSE "report"

\* cache miss: fetch_fir_from_api(ps_data, fir_number, fir_year, spoof_ip)
ProcFetch ==
    /\ pc = "fetch"
    /\ \E r \in Responses :
         LET got == fetch_fir_from_api(r)
         IN  /\ response' = r
             /\ frame' = [frame EXCEPT !.pdf_content = got.pdf_content,
                                       !.status_code = Some(got.status_code)]
             /\ trace' = Append(trace,
                    Call("fetch_fir_from_api", 0,
                         <<psMap[frame.ps_short_code].districtCode,
                           psMap[frame.ps_short_code].psCode,
                           frame.fir_number, frame.fir_year>>,
                         IF got.pdf_content = None THEN "failure" ELSE "success"))
             /\ pc' = AfterFetch(got.pdf_content)
    /\ UNCHANGED <<chat_id, lines, idx, text, cache, channel, cache0, result, hlog,
                   handler, outcomes>>

\* the document goes to the user
ProcDeliver ==
    /\ pc = "deliver"
    /\ \E o \in Outcomes :
         /\ trace' = Append(trace, Call("send_document", chat_id, frame.pdf_content, o))
         /\ IF o = "ok"
            THEN pc' = "archive" /\ UNCHANGED <<result, outcomes, handler>>
            ELSE Raise(frame)
    /\ response' = NoResponse
    /\ UNCHANGED <<chat_id, lines, idx, text, frame, cache, channel, cache0, hlog>>

\* the document goes to the log channel, which answers with the new message
ProcArchive ==
    /\ pc = "archive"
    /\ \E o \in Outcomes \cup {"none"} :
         /\ o = "ok" => Len(channel) < MaxChannel
         /\ trace' = Append(trace, Call("send_document", LOG_CHANNEL_ID, <<frame.fir_key>>, o))
         /\ IF o = "ok"
            THEN /\ channel' = Append(channel, frame.fir_key)
                 /\ frame' = [frame EXCEPT !.log_message = Some(Len(channel) + 1)]
                 /\ pc' = "store"
                 /\ UNCHANGED <<result, outcomes, handler>>
            ELSE IF o = "none"
            THEN /\ pc' = "store"
                 /\ UNCHANGED <<channel, frame, result, outcomes, handler>>
            ELSE Raise(frame) /\ UNCHANGED <<channel, frame>>
    /\ UNCHANGED <<chat_id, lines, idx, text, response, cache, cache0, hlog>>

\* ProcCacheStore with the call of cache_message_id forgotten
ProcCacheStore_Forgets ==
    /\ pc = "store"
    /\ Truthy(frame.log_message)
    /\ Return("Delivered", frame)
    /\ UNCHANGED <<chat_id, lines, idx, text, frame, response, cache, channel,
                   trace, cache0, hlog>>

\* "if log_message and log_message.message_id": cache_message_id
ProcCacheStore ==
    /\ pc = "store"
    /\ Truthy(frame.log_message)
    /\ \E o \in Outcomes :
         /\ trace' = Append(trace, Call("replace_one", 0,
                                        <<frame.fir_key, frame.log_message[1]>>, o))
         /\ IF o = "ok"
            THEN /\ cache' = cache_message_id(cache, frame.fir_key, frame.log_message[1])
                 /\ Return("Delivered", frame)
            ELSE UNCHANGED cache /\ Raise(frame)
    /\ UNCHANGED <<chat_id, lines, idx, text, frame, response, channel, cache0, hlog>>

\* ProcSkipStore with the "if" forgotten: the missing message id is cached as 0
ProcSkipStore_StoresAnyway ==
    /\ pc = "store"
    /\ ~Truthy(frame.log_message)
    /\ trace' = Append(trace, Call("replace_one", 0, <<frame.fir_key, 0>>, "ok"))
    /\ cache' = cache_message_id(cache, frame.fir_key, 0)
    /\ Return("Delivered", frame)
    /\ UNCHANGED <<chat_id, lines, idx, text, frame, response, channel, cache0, hlog>>

\* the "if" is false: nothing is cached, the function ends
ProcSkipStore ==
    /\ pc = "store"
    /\ ~Truthy(frame.log_message)
    /\ Return("Delivered", frame)
    /\ UNCHANGED <<chat_id, lines, idx, text, frame, response, cache, channel,
                   trace, cache0, hlog>>

\* "else": the error message of the status code
ProcReportError ==
    /\ pc = "report"
    /\ \E o \in Outcomes :
         /\ trace' = Append(trace, Call("send_message", chat_id,
                                        generate_api_error_message(frame.status_code[1]), o))
         /\ IF o = "ok" THEN Return("ApiError", frame) ELSE Raise(frame)
    /\ response' = NoResponse
    /\ UNCHANGED <<chat_id, lines, idx, text, frame, cache, channel, cache0, hlog>>

Next ==
    \/ UpdateDone
    \/ HandleMessage
    \/ SingleReply
    \/ SingleDelete
    \/ BulkStart
    \/ BulkSleep
    \/ BulkEdit
    \/ ProcInvalidFormat
    \/ ProcInvalidInput
    \/ ProcCacheLookup
    \/ ProcCacheHit
    \/ ProcFetch
    \/ ProcDeliver
    \/ ProcArchive
    \/ ProcCacheStore
    \/ ProcSkipStore
    \/ ProcReportError

Spec == Init /\ [][Next]_vars

\* ------------------------------------------------ the parser on many lines

Cat3(a, b, c) == {x \o y \o z : x \in a, y \in b, z \in c}

ParserCodes == {<<"c", "f">>, <<"C", "f">>, <<"c", "1", "a">>, <<"z", "z">>,
                <<"c", "_", "f">>, <<"1", "2">>, <<>>}
ParserGaps == {<<>>, <<" ">>, <<"\t", " ">>}
ParserNumbers == {<<"1">>, <<"0">>, <<"0", "0", "7">>, <<"9", "9", "9">>,
                  <<"1", "0", "0", "0">>, <<"0", "9", "9", "9">>, <<"1", "2">>, <<>>}
ParserSeparators == {<<"/">>, <<"-">>, <<" ", "/">>}
ParserYears == {<<"2", "0", "0", "9">>, <<"2", "0", "1", "0">>, <<"2", "0", "2", "5">>,
                <<"2", "0", "2", "6">>, <<"2", "0", "2", "7">>, <<"2", "0", "2">>,
                <<"2", "0", "2", "5", "5">>, <<"2", "0", "a", "5">>}

\* the lines handle_message can hand over: stripped and not empty
ParserLines ==
    {Strip(l) : l \in Cat3(Cat3(ParserCodes, ParserGaps, ParserNumbers),
                           ParserSeparators, ParserYears)} \ {<<>>}

\* handle_single_request has called process_fir_request on one of the lines
ParserInit ==
    /\ pc = "proc"
    /\ chat_id = 1
    /\ text \in ParserLines
    /\ lines = <<text>>
    /\ idx = 0
    /\ frame = NoFrame
    /\ response = NoResponse
    /\ cache = <<>>
    /\ channel = <<>>
    /\ trace = <<>>
    /\ cache0 = cache
    /\ result = "running"
    /\ hlog = <<Call("reply_text", 1, <<"Processing">>, "ok")>>
    /\ handler = "running"
    /\ outcomes = <<>>

ParserNext ==
    \/ ProcInvalidFormat
    \/ ProcInvalidInput
    \/ ProcCacheLookup

ParserSpec == ParserInit /\ [][ParserNext]_vars

\* ------------------------------------------- the collection's two helpers

MaxOps == 3        \* calls of the helpers in one run
MaxHandle == 2     \* message ids 1..MaxHandle

CacheKeys == {FirKey(ReMatch(L_cf123)[1]), FirKey(ReMatch(Strip(Lower(L_CF0123)))[1])}

Collections == UNION {[d -> 1..MaxHandle] : d \in SUBSET CacheKeys}

CacheInit ==
    /\ pc = "collection"
    /\ chat_id = 0
    /\ lines = <<>>
    /\ idx = 0
    /\ text = <<>>
    /\ frame = NoFrame
    /\ response = NoResponse
    /\ cache \in Collections
    /\ channel = <<>>
    /\ trace = <<>>
    /\ cache0 = cache
    /\ result = "none"
    /\ hlog = <<>>
    /\ handler = "none"
    /\ outcomes = <<>>

\* cache_message_id(collection, fir_key, message_id)
CachePut ==
    /\ pc = "collection"
    /\ Len(trace) < MaxOps
    /\ \E k \in CacheKeys, h \in 1..MaxHandle :
         /\ cache' = cache_message_id(cache, k, h)
         /\ trace' = Append(trace, Call("replace_one", 0, <<k, h>>, "ok"))
    /\ UNCHANGED <<pc, chat_id, lines, idx, text, frame, response, channel, cache0,
                   result, hlog, handler, outcomes>>

\* get_cached_message_id(collection, fir_key)
CacheGet ==
    /\ pc = "collection"
    /\ Len(trace) < MaxOps
    /\ \E k \in CacheKeys :
         /\ frame' = [frame EXCEPT !.fir_key = k,
                                   !.cached_id = get_cached_message_id(cache, k)]
         /\ trace' = Append(trace, Call("find_one", 0, <<k>>,
                            IF k \in DOMAIN cache THEN "hit" ELSE "miss"))
    /\ UNCHANGED <<pc, chat_id, lines, idx, text, response, cache, channel, cache0,
                   result, hlog, handler, outcomes>>

CacheNext == CachePut \/ CacheGet

CacheSpec == CacheInit /\ [][CacheNext]_vars

\* ------------------------------------------------- one bulk batch alone

MaxBulk == 3       \* lines of the batch

\* the lines handle_message keeps: stripped and not empty
BulkLines == {Strip(l) : l \in RawLines} \ {<<>>}

BulkTexts == UNION {[1..n -> BulkLines] : n \in 2..MaxBulk}

\* handle_message has called handle_bulk_request on a message of several lines
BulkInit ==
    /\ pc = "bulk_start"
    /\ chat_id = 1
    /\ lines \in BulkTexts
    /\ idx = 0
    /\ text = <<>>
    /\ frame = NoFrame
    /\ response = NoResponse
    /\ cache = <<>>
    /\ channel = <<>>
    /\ trace = <<>>
    /\ cache0 = cache
    /\ result = "none"
    /\ hlog = <<>>
    /\ handler = "running"
    /\ outcomes = <<>>

BulkNext ==
    \/ BulkStart
    \/ BulkSleep
    \/ BulkEdit
    \/ ProcInvalidFormat
    \/ ProcInvalidInput
    \/ ProcCacheLookup
    \/ ProcCacheHit
    \/ ProcFetch
    \/ ProcDeliver
    \/ ProcArchive
    \/ ProcCacheStore
    \/ ProcSkipStore
    \/ ProcReportError

BulkSpec == BulkInit /\ [][BulkNext]_vars

\* ------------------------------------------------------------- properties

FetchCalls == {i \in DOMAIN trace : trace[i].op = "fetch_fir_from_api"}
GetCalls == {i \in DOMAIN trace : trace[i].op = "find_one"}
PutCalls == {i \in DOMAIN trace : trace[i].op = "replace_one"}
ArchiveCalls ==
    {i \in DOMAIN trace : trace[i].op = "send_document" /\ trace[i].to = LOG_CHANNEL_ID}
UserDocuments ==
    {i \in DOMAIN trace : trace[i].op = "send_document" /\ trace[i].to # LOG_CHANNEL_ID}
Ended == result \in {"returned", "raised"}

\* C1: a request whose key is in the cache at the lookup is served by
\* copy_message of the stored message id, with no fetch, no upload to the log
\* channel, no document upload and no cache write; the cache stays as it was.
C1_CacheHitServesByReference ==
    \A i \in GetCalls :
        trace[i].out = "hit" =>
            /\ FetchCalls = {} /\ ArchiveCalls = {} /\ PutCalls = {} /\ UserDocuments = {}
            /\ cache = cache0
            /\ trace[i].arg[1] \in DOMAIN cache0
            /\ Ended => /\ Len(trace) = i + 1
                        /\ trace[i + 1].op = "copy_message"
                        /\ trace[i + 1].to = chat_id
                        /\ trace[i + 1].arg = <<LOG_CHANNEL_ID, cache0[trace[i].arg[1]]>>

C1_Witness ==
    /\ result = "returned"
    /\ \E i \in GetCalls : trace[i].out = "hit"
    /\ trace[Len(trace)].op = "copy_message" /\ trace[Len(trace)].out = "ok"

\* every document of the collection holds the id of a log channel message
\* whose caption names the document's key
CacheHandlesFromArchive ==
    \A k \in DOMAIN cache : cache[k] \in DOMAIN channel /\ channel[cache[k]] = k

\* C2 as stated: every ended resolution that missed the cache and whose fetch
\* succeeded made exactly one upload to the log channel and exactly one cache
\* put, and the cache holds the handle of that upload under the request's key.
C2_Original ==
    /\ CacheHandlesFromArchive
    /\ (Ended /\ \E i \in FetchCalls : trace[i].out = "success") =>
          /\ Cardinality(ArchiveCalls) = 1
          /\ Cardinality(PutCalls) = 1
          /\ frame.fir_key \in DOMAIN cache
          /\ cache[frame.fir_key] = Len(channel)

\* C2 as amended: when moreover the delivery to the user succeeded and the
\* upload to the log channel returned a handle, exactly one upload and exactly
\* one put were made, the put is for the request's key with the handle of that
\* upload, and a put that succeeded left that handle in the cache; no resolution
\* makes more than one upload or more than one put; every cache entry's handle
\* is a handle the log channel returned for the same key.
C2_Amended ==
    /\ CacheHandlesFromArchive
    /\ Cardinality(ArchiveCalls) <= 1
    /\ Cardinality(PutCalls) <= 1
    /\ (/\ Ended
        /\ \E i \in FetchCalls : trace[i].out = "success"
        /\ \E i \in UserDocuments : trace[i].out = "ok"
        /\ \E i \in ArchiveCalls : trace[i].out = "ok") =>
          /\ Cardinality(ArchiveCalls) = 1
          /\ Cardinality(PutCalls) = 1
          /\ \A p \in PutCalls :
                /\ trace[p].arg = <<frame.fir_key, Len(channel)>>
                /\ channel[Len(channel)] = frame.fir_key
                /\ frame.fir_key \notin DOMAIN cache0
                /\ trace[p].out = "ok" => /\ frame.fir_key \in DOMAIN cache
                                          /\ cache[frame.fir_key] = Len(channel)

C2_Witness ==
    /\ result = "returned"
    /\ \E i \in ArchiveCalls : trace[i].out = "ok"
    /\ \E p \in PutCalls : trace[p].out = "ok"
    /\ frame.fir_key \in DOMAIN cache /\ cache[frame.fir_key] = Len(channel)

C3_Message(status) ==
    IF status = 404 THEN <<"Not Found">>
    ELSE IF status = 403 THEN <<"Forbidden">>
    ELSE <<"Server Error", status>>

\* C3: a resolution that missed the cache and whose fetch failed makes no
\* upload to the log channel and no cache write, leaves the cache as it was and
\* ends by sending the user the text message of the failure's status code.
C3_FetchFailureWritesNothing ==
    \A i \in FetchCalls :
        trace[i].out = "failure" =>
            /\ ArchiveCalls = {} /\ PutCalls = {} /\ UserDocuments = {}
            /\ cache = cache0
            /\ frame.pdf_content = None
            /\ Ended => /\ Len(trace) = i + 1
                        /\ trace[i + 1].op = "send_message"
                        /\ trace[i + 1].to = chat_id
                        /\ trace[i + 1].arg = C3_Message(frame.status_code[1])

C3_Witness ==
    /\ result = "returned"
    /\ \E i \in FetchCalls : trace[i].out = "failure"
    /\ trace[Len(trace)].op = "send_message" /\ trace[Len(trace)].out = "ok"

C4_Rejection(c) ==
    c.op = "send_message" /\ c.arg[1] \in {"Invalid Format", "Invalid Input"}

\* C4: a line that fails parsing or validation ends with the Invalid Format or
\* Invalid Input message and nothing else: no call of the collection (find_one,
\* replace_one), of the upstream or of the log channel is made for it.
C4_RejectedTouchesNothing ==
    /\ \A i \in DOMAIN trace :
          C4_Rejection(trace[i]) =>
              /\ Len(trace) = 1
              /\ Ended
              /\ cache = cache0
    /\ (Ended /\ text \in {L_bad, L_zz1}) =>
          /\ Len(trace) = 1
          /\ trace[1].op = "send_message"
          /\ trace[1].arg = <<IF text = L_bad THEN "Invalid Format" ELSE "Invalid Input", text>>

C4_Witness ==
    /\ result = "returned"
    /\ text = L_zz1
    /\ C4_Rejection(trace[1]) /\ trace[1].arg[1] = "Invalid Input"

\* the grammar <code><number>/<4-digit year> of the claim: some split of the
\* line into an alphanumeric code, optional white space, digits, "/" and four digits
C5_Grammar(s) ==
    \E a \in 1..Len(s), b \in 1..Len(s) :
        /\ a <= b /\ b < Len(s) - 5
        /\ \A i \in 1..a : s[i] \in LowerLetters \cup Digits
        /\ \A i \in (a + 1)..b : s[i] \in Whitespace
        /\ \A i \in (b + 1)..(Len(s) - 5) : s[i] \in Digits
        /\ s[Len(s) - 4] = "/"
        /\ \A i \in (Len(s) - 3)..Len(s) : s[i] \in Digits

\* the groups the code took are a split of the line that the grammar allows
C5_Groups(s, fr) ==
    \E gap \in {<<>>} \cup UNION {[1..n -> Whitespace] : n \in 1..2} :
        /\ s = fr.ps_short_code \o gap \o fr.fir_number \o <<"/">> \o fr.fir_year
        /\ fr.ps_short_code # <<>> /\ fr.fir_number # <<>> /\ Len(fr.fir_year) = 4

C5_OutOfRange(fr) ==
    \/ fr.ps_short_code \notin DOMAIN psMap
    \/ IntOf(fr.fir_number) \notin 1..999
    \/ IntOf(fr.fir_year) \notin 2010..2026

\* C5: every line gets exactly one of three outcomes: Invalid Format exactly
\* when it does not match the grammar; Invalid Input exactly when it matches and
\* the station code is unknown or the number is outside 1..999 or the year is
\* outside 2010..2026; the cache lookup otherwise, so that every request that
\* reaches the lookup has a known station, a number in 1..999 and a year in
\* 2010..2026.
C5_Classification ==
    Len(trace) >= 1 =>
        LET s == Strip(Lower(text))
            c == trace[1]
        IN  /\ c.op \in {"send_message", "find_one"}
            /\ Len(trace) = 1
            /\ (c.op = "send_message" /\ c.arg[1] = "Invalid Format") <=> ~C5_Grammar(s)
            /\ C5_Grammar(s) => C5_Groups(s, frame)
            /\ (c.op = "send_message" /\ c.arg[1] = "Invalid Input")
                  <=> (C5_Grammar(s) /\ C5_OutOfRange(frame))
            /\ c.op = "find_one" <=> (C5_Grammar(s) /\ ~C5_OutOfRange(frame))

C5_Witness ==
    /\ Len(trace) = 1
    /\ trace[1].op = "send_message" /\ trace[1].arg[1] = "Invalid Input"
    /\ frame.ps_short_code \in DOMAIN psMap
    /\ IntOf(frame.fir_number) = 1000
    /\ IntOf(frame.fir_year) = 2025

\* C6 as stated: two accepted lines of one batch that denote the same station,
\* the same integer case number and the same year have the same cache key, and
\* two that denote different tuples have different keys.
C6_KeyIdentifiesTuple ==
    \A i \in DOMAIN outcomes, j \in DOMAIN outcomes :
        (outcomes[i].fir_key # <<>> /\ outcomes[j].fir_key # <<>>) =>
            ((/\ outcomes[i].ps_short_code = outcomes[j].ps_short_code
              /\ IntOf(outcomes[i].fir_number) = IntOf(outcomes[j].fir_number)
              /\ IntOf(outcomes[i].fir_year) = IntOf(outcomes[j].fir_year))
             <=> outcomes[i].fir_key = outcomes[j].fir_key)

C7_Puts(k) == {i \in PutCalls : trace[i].arg[1] = k}

C7_Last(S) == CHOOSE i \in S : \A j \in S : j <= i

\* C7: after any sequence of puts, get(key) is the handle of the last put for
\* that key, whether the key was present before or not and whether the handle
\* is the same or another one, and a key no put named keeps the entry it had.
C7_PutIsUpsert ==
    /\ \A k \in CacheKeys :
          get_cached_message_id(cache, k) =
              IF C7_Puts(k) = {} THEN get_cached_message_id(cache0, k)
              ELSE Some(trace[C7_Last(C7_Puts(k))].arg[2])
    /\ DOMAIN cache = DOMAIN cache0 \cup {trace[i].arg[1] : i \in PutCalls}
    /\ (trace # <<>> /\ trace[Len(trace)].op = "find_one") =>
          frame.cached_id = get_cached_message_id(cache, frame.fir_key)

C7_Witness ==
    \E i \in PutCalls, j \in PutCalls, l \in PutCalls :
        /\ i < j /\ j < l
        /\ trace[i].arg = trace[j].arg
        /\ trace[l].arg[1] = trace[j].arg[1] /\ trace[l].arg[2] # trace[j].arg[2]
        /\ trace[l].arg[1] \in DOMAIN cache0
        /\ cache[trace[l].arg[1]] = trace[l].arg[2]

\* C8: when find_one fails, the resolution ends there as failed: it is not
\* taken for a miss, and no fetch, no upload to the log channel and no cache
\* write follows.
C8_LookupFailureIsFatal ==
    \A i \in GetCalls :
        trace[i].out = "raise" =>
            /\ result = "raised"
            /\ Len(trace) = i
            /\ FetchCalls = {} /\ ArchiveCalls = {} /\ PutCalls = {}
            /\ cache = cache0

C8_Witness ==
    /\ result = "raised"
    /\ handler = "error"
    /\ \E i \in GetCalls : trace[i].out = "raise"

\* C9: when the upload to the log channel raises or returns no message, no
\* cache write follows, so every cache entry holds the id of a message of the
\* log channel.
C9_ArchiveFailureNoCacheWrite ==
    /\ \A a \in ArchiveCalls :
          trace[a].out # "ok" =>
              /\ PutCalls = {}
              /\ cache = cache0
              /\ Len(trace) = a
    /\ \A k \in DOMAIN cache : cache[k] \in 1..Len(channel)

C9_Witness ==
    /\ result = "returned"
    /\ \E a \in ArchiveCalls : trace[a].out = "none"
    /\ \E i \in UserDocuments : trace[i].out = "ok"

\* C10 as stated: when the cache put fails after a successful fetch and upload,
\* process_fir_request still returns normally and its caller goes on.
C10_PutFailureIsNotFatal ==
    \A p \in PutCalls :
        trace[p].out = "raise" => (result = "returned" /\ handler # "error")

\* a call that talks to the user's chat raised (the chat transport failed)
ChatCallFailed ==
    \/ \E i \in DOMAIN hlog : hlog[i].out = "raise"
    \/ \E i \in DOMAIN trace : trace[i].to = chat_id /\ trace[i].out = "raise"

BatchEnded == pc = "ended" /\ Len(lines) > 1

Sleeps == {i \in DOMAIN hlog : hlog[i].op = "sleep"}

\* C11 as stated: a batch of N lines whose chat calls all succeed ends with
\* exactly N outcomes, the i-th being that of the i-th line, each resolution
\* followed by one delay; at any time the outcomes are those of the first lines
\* in order and only the line after the last outcome can be in resolution.
C11_BatchInOrder ==
    /\ Len(lines) > 1 =>
          /\ Len(outcomes) <= Len(lines)
          /\ \A i \in DOMAIN outcomes : outcomes[i].text = lines[i]
          /\ result = "running" => (idx = Len(outcomes) + 1 /\ text = lines[idx])
          /\ Cardinality(Sleeps) \in {Len(outcomes) - 1, Len(outcomes)}
    /\ (BatchEnded /\ ~ChatCallFailed) =>
          /\ Len(outcomes) = Len(lines)
          /\ Cardinality(Sleeps) = Len(lines)

C12_Classified == {"InvalidFormat", "InvalidInput", "ApiError"}

\* C12 as stated: in a batch whose chat calls all succeed, after a line that
\* ended in Invalid Format, Invalid Input or an upstream failure every later
\* line is attempted and has its own outcome when the batch ends.
C12_FailureDoesNotStopBatch ==
    \A i \in DOMAIN outcomes :
        (BatchEnded /\ ~ChatCallFailed /\ outcomes[i].kind \in C12_Classified) =>
            \A j \in (i + 1)..Len(lines) :
                j \in DOMAIN outcomes /\ outcomes[j].text = lines[j]

C13_StorageOrArchiveError(c) ==
    /\ c.out = "raise"
    /\ \/ c.op = "find_one"
       \/ c.op = "send_document" /\ c.to = LOG_CHANNEL_ID

\* C13 as stated: in a batch, a failed cache lookup or a failed upload to the
\* log channel ends only its own line, with a message to the user; the handler
\* does not end in an error and goes on with the remaining lines.
C13_ErrorsAreIsolated ==
    \A i \in DOMAIN trace :
        (Len(lines) > 1 /\ C13_StorageOrArchiveError(trace[i])) =>
            /\ handler # "error"
            /\ pc # "ended" \/ Len(outcomes) = Len(lines)
            /\ \E j \in DOMAIN trace :
                  j > i /\ trace[j].op = "send_message" /\ trace[j].to = chat_id

\* C14 as stated: a batch of N lines whose chat calls all succeed has sent the
\* "starting N tasks" message before its first resolution, and when it has
\* ended it has made the "complete N tasks" edit after its last resolution.
C14_StartAndCompleteSignals ==
    /\ (Len(lines) > 1 /\ result # "none") =>
          hlog[1] = Call("send_message", chat_id, <<"Starting", Len(lines)>>, "ok")
    /\ (BatchEnded /\ ~ChatCallFailed) =>
          /\ Len(outcomes) = Len(lines)
          /\ hlog[Len(hlog)] = Call("edit_message_text", chat_id,
                                    <<"Complete", Len(lines)>>, "ok")

\* C15: fetch_fir_from_api returns the content only for a response with a
\* status below 400, a content type containing application/pdf and a body of
\* more than 1000 bytes; every other response with a status below 400 gives
\* (None, 404).
C15_SuccessNeedsPdfAndSize ==
    response.kind = "response" =>
        LET good == /\ response.status_code < 400
                    /\ response.content_type \in
                          {"application/pdf", "application/pdf;charset=UTF-8"}
                    /\ response.length > 1000
        IN  /\ frame.pdf_content # None <=> good
            /\ good => (frame.pdf_content = Some(response.length)
                        /\ frame.status_code = Some(response.status_code))
            /\ (response.status_code < 400 /\ ~good) =>
                  (frame.pdf_content = None /\ frame.status_code = Some(404))

C15_Witness ==
    /\ response = [kind |-> "response", status_code |-> 200,
                   content_type |-> "text/html", length |-> 50]
    /\ frame.pdf_content = None
    /\ frame.status_code = Some(404)
    /\ pc = "report"

\* C16: after a miss the upstream is called exactly once in the resolution,
\* right after the lookup, with the district and station codes of the station
\* and the number and year of the request, and never again after a failure.
C16_OneFetchPerMiss ==
    /\ Cardinality(FetchCalls) <= 1
    /\ \A f \in FetchCalls :
          /\ f \in GetCalls \/ f - 1 \in GetCalls
          /\ trace[f - 1].op = "find_one" /\ trace[f - 1].out = "miss"
          /\ trace[f].arg = <<psMap[frame.ps_short_code].districtCode,
                              psMap[frame.ps_short_code].psCode,
                              frame.fir_number, frame.fir_year>>
          /\ text \in {L_cf123, Strip(L_CF0123)} =>
                /\ trace[f].arg[1] = "25810" /\ trace[f].arg[2] = "25810003"
                /\ IntOf(trace[f].arg[3]) = 123 /\ IntOf(trace[f].arg[4]) = 2025
    /\ \A i \in GetCalls :
          (trace[i].out = "miss" /\ pc # "fetch") => Cardinality(FetchCalls) = 1

C16_Witness ==
    /\ result = "returned"
    /\ text = L_cf123
    /\ \E i \in GetCalls : trace[i].out = "miss"
    /\ Cardinality(FetchCalls) = 1
    /\ \E f \in FetchCalls :
          /\ trace[f].out = "failure"
          /\ trace[f].arg = <<"25810", "25810003", <<"1", "2", "3">>, <<"2", "0", "2", "5">>>>

\* C17: no step removes a key of the cache, and a resolution whose key was in
\* the cache when it began and whose lookup answers is a hit without a fetch.
C17_CacheMonotonic ==
    /\ [][\A k \in DOMAIN cache : k \in DOMAIN cache']_vars
    /\ [](\A i \in GetCalls :
             (trace[i].arg[1] \in DOMAIN cache0 /\ trace[i].out # "raise") =>
                 (trace[i].out = "hit" /\ FetchCalls = {}))

C17_Witness ==
    /\ Cardinality(DOMAIN cache) = 2
    /\ result = "returned"
    /\ \E i \in GetCalls : trace[i].out = "hit"

\* C18 as stated: for every key at most one upload to the log channel is made
\* (each upload follows a successful fetch of the same resolution, so this is
\* also at most one successful fetch).
C18_AtMostOneUploadPerKey ==
    \A i \in DOMAIN channel, j \in DOMAIN channel :
        channel[i] = channel[j] => i = j

\* C18 as amended: once a key has its cache entry, no resolution fetches or
\* uploads for it and the entry is not written again, so the entry is created
\* at most once and it names the last upload made for the key; before that,
\* every resolution of the key that misses fetches again.
C18_NoFetchOnceCached ==
    /\ \A k \in DOMAIN cache : \A i \in DOMAIN channel :
          channel[i] = k => i <= cache[k]
    /\ \A i \in FetchCalls \cup ArchiveCalls \cup PutCalls :
          frame.fir_key \notin DOMAIN cache0
    /\ \A p \in PutCalls : trace[p].arg[1] = frame.fir_key
    /\ \A k \in DOMAIN cache0 : k \in DOMAIN cache /\ cache[k] = cache0[k]

C18_Witness ==
    /\ Len(channel) = 2
    /\ channel[1] = channel[2]
    /\ channel[1] \in DOMAIN cache
    /\ cache[channel[1]] = 2

\* C19 as stated: an upstream answer with an error status s gives (None, s);
\* 500 is the status only of a call that got no response.
C19_ErrorStatusIsReported ==
    /\ (response.kind = "response" /\ response.status_code >= 400) =>
          (frame.pdf_content = None /\ frame.status_code = Some(response.status_code))
    /\ response.kind = "no_response" =>
          (frame.pdf_content = None /\ frame.status_code = Some(500))

C20_Numbers == {n \in ParserNumbers : n # <<>>}
C20_Years == {y \in ParserYears : Len(y) = 4 /\ \A i \in 1..4 : y[i] \in Digits}

\* C20 as stated: a line written as a known code immediately followed by the
\* number and /year is parsed to the station, the number and the key of the
\* same line written with a space between the code and the number.
C20_WhitespaceIsOptional ==
    Len(trace) >= 1 =>
        \A c \in DOMAIN psMap, n \in C20_Numbers, y \in C20_Years :
            Lower(text) = c \o n \o <<"/">> \o y =>
                LET spaced == c \o <<" ">> \o n \o <<"/">> \o y
                    m      == ReMatch(spaced)[1]
                IN  /\ frame.ps_short_code = m.ps_short_code
                    /\ frame.fir_number = m.fir_number
                    /\ Classify(spaced) = "Accepted" =>
                          (trace[1].op = "find_one" /\ trace[1].arg[1] = FirKey(m))

====
